---- MODULE Spec2Model ----
(***************************************************************************)
(* Model of the feature-orchestrator MCP server                            *)
(* (src/mcp/feature-orchestrator/src/index.ts): the per-feature workspace  *)
(* directory, its state.json / scope.json / artifact files, and the tool   *)
(* handlers that read and write them.                                      *)
(*                                                                         *)
(* A workspace is a directory of files.  A file's content is a record of   *)
(* one fixed shape [kind, st, sc, txt]:                                    *)
(*   kind = "absent"  the file does not exist                              *)
(*   kind = "state"   the text JSON.stringify(state, null, 2) of the       *)
(*                    FeatureState st                                      *)
(*   kind = "scope"   the text JSON.stringify(scope, null, 2) of sc        *)
(*   kind = "json"    another text that JSON.parse accepts (txt names it)  *)
(*   kind = "text"    a text that JSON.parse rejects (txt names it)        *)
(* Not modelled: feature_id inside the state (it equals the directory      *)
(* name), title, created_at and updated_at (no handler reads them back to  *)
(* take a decision).                                                       *)
(***************************************************************************)
EXTENDS Integers, Sequences, FiniteSets, TLC

VARIABLES
    ws,         \* ws[f]: the workspace directory of feature id f
    last,       \* the result of the last tool call (what handleToolCall returned)
    gate,       \* gate[f]: the orchestrator's latest coverage_check.status for f
    reentries,  \* reentries[f]: how often f went back from verification /
                \* coverage_validation to implementation / test_implementation
    input,      \* what a procedure is applied to: an agent's documents, the
                \* requests that arrived, the document on disk
    output,     \* what the procedure made of it: its result, the replies
                \* sent, the requests handled, the latest write times
    clock,      \* Date.now() of the server process, in ms
    calls,      \* calls[c]: the position and the reply of test-run call c
    testRuns,   \* the playwright server's Map of runId -> TestRunResult
    mtime,      \* mtime[f]: the modification time (ms) of f's directory
    cache       \* the docs server's cache entry of the one document

vars == <<ws, last, gate, reentries, input, output, clock, calls, testRuns,
          mtime, cache>>

\* the state of the playwright server
runs == <<clock, calls, testRuns>>

----------------------------------------------------------------------------
(* Bounds of the model *)

MaxIter == 6        \* Machine, Flow: no increment_iteration once the counter is here
MaxErrors == 1      \* no add_error once errors has this length
StoreMaxIter == 1   \* Spec: no increment_iteration once the counter is here
MaxReentries == 6   \* Flow: no further re-entry once it has happened this often

----------------------------------------------------------------------------
(* Program constants *)

\* createWorkspace: max_iterations: 5
DefaultMaxIterations == 5

\* The phase chain of the workflow
PhaseChain ==
    << "initialization", "spec", "docs_audit", "planning", "test_ideation",
       "implementation", "test_implementation", "coverage_validation",
       "verification", "finalization", "completed" >>

\* FeatureState['status']
Statuses == {"pending", "in_progress", "completed", "failed", "paused"}

\* FeatureScope['implementation_scope']
ScopeModes == {"full", "frontend-only"}

----------------------------------------------------------------------------
(* Values *)

\* a scope whose skip_backend is not derived from the mode
MkScopeNoSkip(mode, notes) ==
    [implementation_scope |-> mode,
     skip_backend         |-> FALSE,
     notes                |-> notes]

\* notes?: string -- "" stands for undefined (JSON.stringify drops the key)
MkScope(mode, notes) ==
    [implementation_scope |-> mode,
     skip_backend         |-> (mode = "frontend-only"),
     notes                |-> notes]

NoScope == [implementation_scope |-> "", skip_backend |-> FALSE, notes |-> ""]

NoState ==
    [current_phase     |-> "",
     status            |-> "",
     scope             |-> NoScope,
     phases_completed  |-> << >>,
     current_iteration |-> 0,
     max_iterations    |-> 0,
     errors            |-> << >>]

\* an initial state that starts the counter at 1
InitialStateOffByOne(scope, scopeNotes) ==
    [current_phase     |-> "initialization",
     status            |-> "in_progress",
     scope             |-> MkScope(scope, scopeNotes),
     phases_completed  |-> << >>,
     current_iteration |-> 1,
     max_iterations    |-> DefaultMaxIterations,
     errors            |-> << >>]

\* createWorkspace: const state: FeatureState = {...}
InitialState(scope, scopeNotes) ==
    [current_phase     |-> "initialization",
     status            |-> "in_progress",
     scope             |-> MkScope(scope, scopeNotes),
     phases_completed  |-> << >>,
     current_iteration |-> 0,
     max_iterations    |-> DefaultMaxIterations,
     errors            |-> << >>]

Absent == [kind |-> "absent", st |-> NoState, sc |-> NoScope, txt |-> ""]

\* JSON.stringify(state, null, 2)
StateFile(s) == [kind |-> "state", st |-> s, sc |-> NoScope, txt |-> ""]

\* JSON.stringify(state.scope, null, 2)
ScopeFile(sc) == [kind |-> "scope", st |-> NoState, sc |-> sc, txt |-> ""]

JsonText(t) == [kind |-> "json", st |-> NoState, sc |-> NoScope, txt |-> t]

PlainText(t) == [kind |-> "text", st |-> NoState, sc |-> NoScope, txt |-> t]

\* JSON.parse(content) returns (does not throw SyntaxError)
JsonParses(c) == c.kind \in {"state", "scope", "json"}

FileNames ==
    {"state.json", "scope.json", "spec.md", "orchestrator-report.md", "link.md",
     "notes.txt", ".draft.md"}

\* readdirSync(workspacePath): the entries of a directory, in one order
DirOrder ==
    << ".draft.md", "link.md", "notes.txt", "orchestrator-report.md",
       "scope.json", "spec.md", "state.json" >>

\* f.endsWith('.json') ? 'json' : f.endsWith('.md') ? 'markdown' : 'text'
TypeOfName(n) ==
    IF n \in {"state.json", "scope.json"} THEN "json"
    ELSE IF n \in {"spec.md", "orchestrator-report.md", "link.md", ".draft.md"}
    THEN "markdown"
    ELSE "text"

\* f.startsWith('.')
StartsWithDot(n) == n = ".draft.md"

\* the report generateReport writes (its text is not modelled)
ReportText == PlainText("# Orchestrator Report")

\* the empty string: as an argument it is falsy, as a file it is empty
EmptyContent == PlainText("")

NoFiles == [n \in FileNames |-> Absent]

NoWorkspace == [exists |-> FALSE, files |-> NoFiles]

----------------------------------------------------------------------------
(* Tool results: what handleToolCall returns *)

\* a successful result; ret is the state / content it carries, names the
\* artifact names it lists
Ok(op, f, ret, names) ==
    [op |-> op, fid |-> f, ok |-> TRUE, err |-> "none", ret |-> ret,
     names |-> names, entries |-> << >>, total |-> 0, rejected |-> FALSE]

\* the successful result of list_artifacts: artifacts is an array with one
\* entry {name, type, ...} per directory entry
OkList(op, f, entries) ==
    [op |-> op, fid |-> f, ok |-> TRUE, err |-> "none", ret |-> Absent,
     names |-> {entries[i].name : i \in 1..Len(entries)}, entries |-> entries,
     total |-> Len(entries), rejected |-> FALSE]

\* the successful result of list_workspaces: workspaces is an array with
\* one entry per listed workspace, in the order of the array; total is
\* workspaces.length
OkWorkspaces(sorted) ==
    [op |-> "list_workspaces", fid |-> "", ok |-> TRUE, err |-> "none",
     ret |-> Absent, names |-> {sorted[i] : i \in 1..Len(sorted)},
     entries |-> sorted, total |-> Len(sorted), rejected |-> FALSE]

\* a failure inside a handler.  The handlers are async and handleToolCall
\* returns their promise from inside its try block without awaiting it
\* (return this.createWorkspace(args)), so the handler's throw is a rejection
\* that the catch does not see: handleToolCall's own promise is rejected
Err(op, f, e) ==
    [op |-> op, fid |-> f, ok |-> FALSE, err |-> e, ret |-> Absent,
     names |-> {}, entries |-> << >>, total |-> 0, rejected |-> TRUE]

\* a failure thrown in handleToolCall itself:
\* catch (error) { return { content: [{ text: {error} }], isError: true } }
ErrResult(op, f, e) == [Err(op, f, e) EXCEPT !.rejected = FALSE]

NoCall == [op |-> "none", fid |-> "", ok |-> TRUE, err |-> "none",
           ret |-> Absent, names |-> {}, entries |-> << >>, total |-> 0,
           rejected |-> FALSE]

----------------------------------------------------------------------------
(* Inputs *)

Features == {"f1"}

\* scope argument of create_workspace / set_scope; "" is an absent argument
ScopeArgs == {"", "full", "frontend-only"}

NotesArgs == {""}

\* the arguments of update_state other than feature_id; "" / FALSE is an
\* absent (falsy) argument
NoArgs ==
    [phase                |-> "",
     status               |-> "",
     increment_iteration  |-> FALSE,
     add_error            |-> "",
     mark_phase_completed |-> ""]

IncrementOnly == [NoArgs EXCEPT !.increment_iteration = TRUE]

\* the calls that set one argument, for the given values of phase, status,
\* add_error and mark_phase_completed, and the call of the server's README
\* that sets three
UpdateArgsOf(P, S, E, M) ==
    {NoArgs, IncrementOnly}
    \cup {[NoArgs EXCEPT !.phase = p] : p \in P}
    \cup {[NoArgs EXCEPT !.status = s] : s \in S}
    \cup {[NoArgs EXCEPT !.add_error = e] : e \in E}
    \cup {[NoArgs EXCEPT !.mark_phase_completed = m] : m \in M}
    \cup {[NoArgs EXCEPT !.phase = "implementation", !.status = "in_progress",
                         !.mark_phase_completed = "planning"]}

MarkArgs == {"spec", "planning"}

ErrorArgs == {"boom"}

\* a state.json written by hand: valid JSON of the FeatureState shape
ForgedState ==
    [current_phase     |-> "spec",
     status            |-> "in_progress",
     scope             |-> MkScope("full", ""),
     phases_completed  |-> << "spec", "spec" >>,
     current_iteration |-> 0,
     max_iterations    |-> DefaultMaxIterations,
     errors            |-> << >>]

\* content argument of save_artifact
Contents ==
    {StateFile(ForgedState), JsonText("null"), PlainText("{not valid"),
     EmptyContent}

\* name argument of save_artifact / get_artifact in Spec
SaveNames == {"state.json", "scope.json", "spec.md"}

\* names that leave the workspace directory of the call:
\* join(workspacesDir, featureId, "../f2/spec.md") is workspacesDir/f2/spec.md
EscapingNames ==
    [n \in {"../f2/spec.md", "../f2/state.json"} |->
        IF n = "../f2/spec.md"
        THEN [fid |-> "f2", file |-> "spec.md"]
        ELSE [fid |-> "f2", file |-> "state.json"]]

\* join(workspacePath, name): the directory and the file the path names
PathOf(f, name) ==
    IF name \in DOMAIN EscapingNames
    THEN EscapingNames[name]
    ELSE [fid |-> f, file |-> name]

\* type argument of save_artifact; "" is an absent argument
TypeArgs == {"", "json", "markdown", "text"}

----------------------------------------------------------------------------
(* Helpers of the handlers *)

\* existsSync(join(this.workspacesDir, featureId, name))
\* existsSync(path); it follows a symbolic link, so a link whose target is
\* missing does not exist for it
FileExists(f, n) == ws[f].exists /\ ws[f].files[n].kind \notin {"absent", "link"}

\* the entries of the directory on which statSync throws (ENOENT)
Unreadable(f) == {n \in FileNames : ws[f].files[n].kind = "link"}

\* the entries of a workspace directory
EntriesOf(w) == {n \in FileNames : w.files[n].kind # "absent"}

\* the modification times of the workspace directories after a step: the
\* file system sets a directory's mtime when the directory is made and when
\* an entry is added to it or removed from it, and not when a file that is
\* already in it is written again
DirTimes ==
    [f \in DOMAIN ws |->
        IF ~ws'[f].exists THEN 0
        ELSE IF ~ws[f].exists \/ EntriesOf(ws'[f]) # EntriesOf(ws[f])
        THEN clock
        ELSE mtime[f]]

\* the artifact names getWorkspace lists:
\* readdirSync(workspacePath).filter(f => f.endsWith('.json') || f.endsWith('.md'))
ListedNames(f) ==
    {n \in EntriesOf(ws[f]) : TypeOfName(n) \in {"json", "markdown"}}

\* JSON.parse(readFileSync(statePath)) as FeatureState is an object whose
\* fields the handler can read and assign.  JSON.parse throws SyntaxError on
\* a "text" file; on the JSON text null it returns null and the first
\* assignment to a field (state.updated_at = ... at the latest) throws
\* TypeError.
IsStateObject(c) == c.kind = "state"

\* the error the handler ends with when the file is not a state object
ParseFailure(c) == IF JsonParses(c) THEN "type_error" ELSE "syntax_error"

\* updateState: // Update fields
ApplyPhase(s, a) ==
    IF a.phase # "" THEN [s EXCEPT !.current_phase = a.phase] ELSE s

ApplyStatus(s, a) ==
    IF a.status # "" THEN [s EXCEPT !.status = a.status] ELSE s

\* an update that counts an iteration whether or not it was asked to
ApplyIncrementAlways(s, a) ==
    [s EXCEPT !.current_iteration = s.current_iteration + 1]

ApplyIncrement(s, a) ==
    IF a.increment_iteration
    THEN [s EXCEPT !.current_iteration = s.current_iteration + 1]
    ELSE s

ApplyError(s, a) ==
    IF a.add_error # ""
    THEN [s EXCEPT !.errors = Append(s.errors, a.add_error)]
    ELSE s

Includes(seq, x) == \E i \in 1..Len(seq) : seq[i] = x

\* mark_phase_completed that assigns the list instead of pushing to it
ApplyMarkAssign(s, a) ==
    IF a.mark_phase_completed # ""
    THEN [s EXCEPT !.phases_completed = << a.mark_phase_completed >>]
    ELSE s

ApplyMark(s, a) ==
    IF a.mark_phase_completed # ""
       /\ ~Includes(s.phases_completed, a.mark_phase_completed)
    THEN [s EXCEPT !.phases_completed =
                      Append(s.phases_completed, a.mark_phase_completed)]
    ELSE s

ApplyUpdate(s, a) ==
    ApplyMark(ApplyError(ApplyIncrement(ApplyStatus(ApplyPhase(s, a), a), a), a), a)

\* setScope: state.scope = {...}
ApplyScope(s, scope, notes) == [s EXCEPT !.scope = MkScope(scope, notes)]

----------------------------------------------------------------------------
(* Tool handlers *)

\* createWorkspace without the existsSync(workspacePath) test
CreateWorkspaceOverwrite(f, scopeArg, scopeNotes) ==
    LET scope == IF scopeArg = "" THEN "full" ELSE scopeArg
        state == InitialState(scope, scopeNotes)
    IN  /\ ws' = [ws EXCEPT ![f].exists = TRUE,
                            ![f].files["state.json"] = StateFile(state),
                            ![f].files["scope.json"] = ScopeFile(state.scope)]
        /\ last' = Ok("create_workspace", f, StateFile(state), {})

CreateWorkspace(f, scopeArg, scopeNotes) ==
    LET scope == IF scopeArg = "" THEN "full" ELSE scopeArg
        state == InitialState(scope, scopeNotes)
    IN  IF ws[f].exists
        THEN /\ last' = Err("create_workspace", f, "already_exists")
             /\ UNCHANGED ws
        ELSE /\ ws' = [ws EXCEPT ![f] =
                         [exists |-> TRUE,
                          files  |-> [NoFiles EXCEPT
                                        !["state.json"] = StateFile(state),
                                        !["scope.json"] = ScopeFile(state.scope)]]]
             /\ last' = Ok("create_workspace", f, StateFile(state), {})

\* deleteWorkspace without the confirm test
DeleteWorkspaceUnconfirmed(f, confirm) ==
    IF ~ws[f].exists
    THEN /\ last' = Err("delete_workspace", f, "workspace_not_found")
         /\ UNCHANGED ws
    ELSE /\ ws' = [ws EXCEPT ![f] = NoWorkspace]
         /\ last' = Ok("delete_workspace", f, Absent, {})

\* !confirm: false and an absent argument alike
DeleteWorkspace(f, confirm) ==
    IF ~confirm
    THEN /\ last' = Err("delete_workspace", f, "not_confirmed")
         /\ UNCHANGED ws
    ELSE IF ~ws[f].exists
    THEN /\ last' = Err("delete_workspace", f, "workspace_not_found")
         /\ UNCHANGED ws
    ELSE /\ ws' = [ws EXCEPT ![f] = NoWorkspace]
         /\ last' = Ok("delete_workspace", f, Absent, {})

GetWorkspace(f) ==
    /\ UNCHANGED ws
    /\ IF ~ws[f].exists
       THEN last' = Err("get_workspace", f, "workspace_not_found")
       ELSE IF FileExists(f, "state.json") /\ ~JsonParses(ws[f].files["state.json"])
       THEN last' = Err("get_workspace", f, "syntax_error")
       ELSE IF Unreadable(f) \cap ListedNames(f) # {}
       THEN last' = Err("get_workspace", f, "io_error")
       ELSE last' = Ok("get_workspace", f, ws[f].files["state.json"], ListedNames(f))

GetState(f) ==
    /\ UNCHANGED ws
    /\ IF ~FileExists(f, "state.json")
       THEN last' = Err("get_state", f, "state_not_found")
       ELSE IF ~JsonParses(ws[f].files["state.json"])
       THEN last' = Err("get_state", f, "syntax_error")
       ELSE last' = Ok("get_state", f, ws[f].files["state.json"], {})

UpdateState(f, a) ==
    IF ~FileExists(f, "state.json")
    THEN /\ last' = Err("update_state", f, "state_not_found")
         /\ UNCHANGED ws
    ELSE IF ~IsStateObject(ws[f].files["state.json"])
    THEN /\ last' = Err("update_state", f, ParseFailure(ws[f].files["state.json"]))
         /\ UNCHANGED ws
    ELSE LET state == ApplyUpdate(ws[f].files["state.json"].st, a)
         IN  /\ ws' = [ws EXCEPT ![f].files["state.json"] = StateFile(state)]
             /\ last' = Ok("update_state", f, StateFile(state), {})

SetScope(f, scope, notes) ==
    IF scope = ""
    THEN /\ last' = Err("set_scope", f, "missing_argument")
         /\ UNCHANGED ws
    ELSE IF ~FileExists(f, "state.json")
    THEN /\ last' = Err("set_scope", f, "state_not_found")
         /\ UNCHANGED ws
    ELSE IF ~IsStateObject(ws[f].files["state.json"])
    THEN /\ last' = Err("set_scope", f, ParseFailure(ws[f].files["state.json"]))
         /\ UNCHANGED ws
    ELSE LET state == ApplyScope(ws[f].files["state.json"].st, scope, notes)
         IN  /\ ws' = [ws EXCEPT ![f].files["state.json"] = StateFile(state),
                                 ![f].files["scope.json"] = ScopeFile(state.scope)]
             /\ last' = Ok("set_scope", f, ScopeFile(state.scope), {})

\* saveArtifact that opens the file with the flag 'wx' (fails if it exists)
SaveArtifactExclusive(f, name, content, typeArg) ==
    LET type == IF typeArg = "" THEN "json" ELSE typeArg
        p    == PathOf(f, name)
    IN  IF content = EmptyContent
        THEN /\ last' = Err("save_artifact", f, "missing_argument")
             /\ UNCHANGED ws
        ELSE IF ~ws[f].exists
        THEN /\ last' = Err("save_artifact", f, "workspace_not_found")
             /\ UNCHANGED ws
        ELSE IF type = "json" /\ ~JsonParses(content)
        THEN /\ last' = Err("save_artifact", f, "invalid_json")
             /\ UNCHANGED ws
        ELSE IF ~ws[p.fid].exists
        THEN /\ last' = Err("save_artifact", f, "io_error")
             /\ UNCHANGED ws
        ELSE /\ ws' = [ws EXCEPT ![p.fid].files[p.file] =
                          IF @.kind = "absent" THEN content ELSE @]
             /\ last' = Ok("save_artifact", f, Absent, {name})

\* !content: the empty string is refused like an absent argument;
\* writeFileSync throws (ENOENT) when the directory of the path is missing
SaveArtifact(f, name, content, typeArg) ==
    LET type == IF typeArg = "" THEN "json" ELSE typeArg
        p    == PathOf(f, name)
    IN  IF content = EmptyContent
        THEN /\ last' = Err("save_artifact", f, "missing_argument")
             /\ UNCHANGED ws
        ELSE IF ~ws[f].exists
        THEN /\ last' = Err("save_artifact", f, "workspace_not_found")
             /\ UNCHANGED ws
        ELSE IF type = "json" /\ ~JsonParses(content)
        THEN /\ last' = Err("save_artifact", f, "invalid_json")
             /\ UNCHANGED ws
        ELSE IF ~ws[p.fid].exists
        THEN /\ last' = Err("save_artifact", f, "io_error")
             /\ UNCHANGED ws
        ELSE /\ ws' = [ws EXCEPT ![p.fid].files[p.file] = content]
             /\ last' = Ok("save_artifact", f, Absent, {name})

GetArtifact(f, name) ==
    LET p == PathOf(f, name)
    IN  /\ UNCHANGED ws
        /\ IF ~FileExists(p.fid, p.file)
           THEN last' = Err("get_artifact", f, "artifact_not_found")
           ELSE last' = Ok("get_artifact", f, ws[p.fid].files[p.file], {name})

\* files.filter(f => !f.startsWith('.')).map(f => ({name: f, type, ...}))
ArtifactEntries(f) ==
    LET present == SelectSeq(DirOrder, LAMBDA n : /\ n \in EntriesOf(ws[f])
                                                  /\ ~StartsWithDot(n))
    IN  [i \in 1..Len(present) |->
            [name |-> present[i], type |-> TypeOfName(present[i])]]

ListArtifacts(f) ==
    /\ UNCHANGED ws
    /\ IF ~ws[f].exists
       THEN last' = Err("list_artifacts", f, "workspace_not_found")
       ELSE IF \E n \in Unreadable(f) : ~StartsWithDot(n)
       THEN last' = Err("list_artifacts", f, "io_error")
       ELSE last' = OkList("list_artifacts", f, ArtifactEntries(f))

\* default: throw new Error(`Unknown tool: ${name}`)
UnknownTool ==
    /\ UNCHANGED ws
    /\ last' = ErrResult("unknown", "", "unknown_tool")

\* status_filter; "" is an absent argument ('all')
FilterArgs == {"", "all", "failed"}

\* listWorkspaces: a workspace whose state.json is missing or does not parse
\* to an object is skipped (the try / catch around each entry)
ListedWorkspaces(statusFilter) ==
    LET filter == IF statusFilter = "" THEN "all" ELSE statusFilter
    IN  {f \in DOMAIN ws :
            /\ FileExists(f, "state.json")
            /\ IsStateObject(ws[f].files["state.json"])
            /\ (filter = "all" \/ ws[f].files["state.json"].st.status = filter)}

\* readdirSync(this.workspacesDir): the workspace directories in one order
WorkspaceOrder == <<"f1", "f2">>

PositionOf(f) == CHOOSE i \in 1..Len(WorkspaceOrder) : WorkspaceOrder[i] = f

\* workspaces.sort((a, b) => new Date(b.modified_at).getTime()
\*                           - new Date(a.modified_at).getTime()):
\* modified_at is the mtime of the workspace directory; the sort is stable
NewerFirst(f, g) ==
    \/ mtime[f] > mtime[g]
    \/ mtime[f] = mtime[g] /\ PositionOf(f) < PositionOf(g)

SortWorkspaces(ids) ==
    CHOOSE seq \in [1..Cardinality(ids) -> ids] :
        \A i, j \in 1..Cardinality(ids) : i < j => NewerFirst(seq[i], seq[j])

\* listWorkspaces without the try / catch around each entry
ListWorkspacesStrict(statusFilter) ==
    /\ UNCHANGED ws
    /\ IF \E f \in DOMAIN ws :
             FileExists(f, "state.json") /\ ~IsStateObject(ws[f].files["state.json"])
       THEN last' = Err("list_workspaces", "", "syntax_error")
       ELSE last' = OkWorkspaces(SortWorkspaces(ListedWorkspaces(statusFilter)))

ListWorkspaces(statusFilter) ==
    /\ UNCHANGED ws
    /\ last' = OkWorkspaces(SortWorkspaces(ListedWorkspaces(statusFilter)))

\* generateReport: reads state.json (readFileSync throws when it is
\* missing, JSON.parse when it is not JSON, state.title when it is null) and
\* writes orchestrator-report.md
GenerateReport(f) ==
    IF ~ws[f].exists
    THEN /\ last' = Err("generate_report", f, "workspace_not_found")
         /\ UNCHANGED ws
    ELSE IF ~FileExists(f, "state.json")
    THEN /\ last' = Err("generate_report", f, "io_error")
         /\ UNCHANGED ws
    ELSE IF ~IsStateObject(ws[f].files["state.json"])
    THEN /\ last' = Err("generate_report", f, ParseFailure(ws[f].files["state.json"]))
         /\ UNCHANGED ws
    ELSE /\ ws' = [ws EXCEPT ![f].files["orchestrator-report.md"] = ReportText]
         /\ last' = Ok("generate_report", f, ReportText, {})

----------------------------------------------------------------------------
(* The playwright server's test runs *)

\* milliseconds that Date.now() advances while the model runs
MaxClock == 2

\* the tool calls of the clients (requests in flight are told apart by c)
Calls == {"c1", "c2"}

\* const runId = `run-${Date.now()}`
RunId(t) == <<"run", t>>

\* an absent runId argument
NoRunId == << >>

\* runId argument of get_test_report
RunIdArgs == {NoRunId} \cup {RunId(t) : t \in 0..MaxClock}

\* featureId / acId arguments of the run tools; "" is an absent argument
RunFeatureArgs == {"", "f1"}
AcArgs == {"", "AC1"}

\* what Playwright's JSON report says of the tests the grep selected;
\* "unparsable" is output that parsePlaywrightOutput throws on
ExecOutcomes == {"all_passed", "some_failed", "unparsable"}

\* TestRunResult = { runId, ...result }
TestRunResult(runId, summary) == [runId |-> runId, summary |-> summary]

NoRun == TestRunResult(NoRunId, "none")

IdleCall == [pc |-> "idle", tool |-> "none", runId |-> NoRunId, reply |-> NoRun]

\* private testRuns: Map<string, TestRunResult> = new Map()
NoRuns ==
    /\ clock = 0
    /\ calls = [c \in Calls |-> IdleCall]
    /\ testRuns = [r \in {} |-> NoRun]

----------------------------------------------------------------------------
(* The docs server (src/mcp/docs/src/index.ts): documents and its cache *)

\* a document is the sequence of its lines; the lines of the model are the
\* front matter delimiter, a front matter field, a heading of level 1, a
\* heading of level 2 and a line of plain text
Documents ==
    {<<"---", "title: x", "---", "# A", "text">>,
     <<"---", "title: x", "---", "# A", "## B">>,
     <<"# A", "text">>}

\* line.match(/^(#{1,6})\s+(.+)$/): the level of a heading line, 0 otherwise
HeadingLevel(line) ==
    IF line = "# A" THEN 1 ELSE IF line = "## B" THEN 2 ELSE 0

\* content.split(/\s+/).filter(Boolean).length of one line
WordsOf(line) == IF line \in {"---", "text"} THEN 1 ELSE 2

RECURSIVE WordCount(_)
WordCount(lines) ==
    IF lines = << >> THEN 0 ELSE WordsOf(Head(lines)) + WordCount(Tail(lines))

\* the line that closes the front matter block, 0 when there is no block
ClosingLine(raw) ==
    IF Len(raw) >= 2 /\ raw[1] = "---" /\ \E k \in 2..Len(raw) : raw[k] = "---"
    THEN CHOOSE k \in 2..Len(raw) :
            raw[k] = "---" /\ \A j \in 2..(k - 1) : raw[j] # "---"
    ELSE 0

\* matter(rawContent): content is the text after the block, data its fields
Matter(raw) ==
    LET k == ClosingLine(raw)
    IN  IF k = 0
        THEN [content |-> raw, data |-> << >>]
        ELSE [content |-> SubSeq(raw, k + 1, Len(raw)),
              data    |-> SubSeq(raw, 2, k - 1)]

\* frontMatter when parseFrontMatter is off: undefined
NoFrontMatter == <<"undefined">>

\* lines.forEach((line, index) => ... headings.push({level, text, line}))
ParseHeadings(content) ==
    LET at == SelectSeq([i \in 1..Len(content) |-> i],
                        LAMBDA i : HeadingLevel(content[i]) > 0)
    IN  [n \in 1..Len(at) |->
            [level |-> HeadingLevel(content[at[n]]),
             text  |-> content[at[n]],
             line  |-> at[n]]]

\* the DocContent readDoc builds from the file (its path is the argument)
DocContent(raw, parseHeadings, parseFrontMatter) ==
    LET parsed  == Matter(raw)
        content == IF parseFrontMatter THEN parsed.content ELSE raw
    IN  [content     |-> content,
         frontMatter |-> IF parseFrontMatter THEN parsed.data ELSE NoFrontMatter,
         headings    |-> IF parseHeadings THEN ParseHeadings(content) ELSE << >>,
         wordCount   |-> WordCount(content)]

NoDoc == [content |-> << >>, frontMatter |-> NoFrontMatter, headings |-> << >>,
          wordCount |-> 0]

\* private cache: Map<string, { content, timestamp }> = new Map()
NoCache == [present |-> FALSE, content |-> NoDoc, timestamp |-> 0]

\* private cacheTTL = 60 * 60 * 1000
CacheTTL == 3600000

----------------------------------------------------------------------------
(* The server: any client may call any tool with any arguments *)

Init ==
    /\ ws = [f \in Features |-> NoWorkspace]
    /\ last = NoCall
    /\ gate = [f \in Features |-> "none"]
    /\ reentries = [f \in Features |-> 0]
    /\ input = "none"
    /\ output = "none"
    /\ NoRuns
    /\ mtime = [f \in DOMAIN ws |-> 0]
    /\ cache = NoCache

\* the calls that keep the counters of the model within its bounds
WithinBounds(f, a, maxIter) ==
    LET s == ws[f].files["state.json"].st
    IN  /\ a.increment_iteration => s.current_iteration < maxIter
        /\ a.add_error # "" => Len(s.errors) < MaxErrors

\* Spec: every handler, the files of the workspace included
StoreUpdateArgs == UpdateArgsOf({"verification"}, {"failed"}, ErrorArgs, MarkArgs)

\* the handlers leave the orchestrator's own bookkeeping alone
Server(A) ==
    /\ A
    /\ mtime' = DirTimes
    /\ UNCHANGED <<gate, reentries, input, output, runs, cache>>

Next ==
    \/ \E f \in Features, sc \in ScopeArgs, n \in NotesArgs :
          Server(CreateWorkspace(f, sc, n))
    \/ \E f \in Features, c \in BOOLEAN : Server(DeleteWorkspace(f, c))
    \/ \E f \in Features : Server(GetWorkspace(f))
    \/ \E f \in Features : Server(GetState(f))
    \/ \E f \in Features, a \in StoreUpdateArgs :
          WithinBounds(f, a, StoreMaxIter) /\ Server(UpdateState(f, a))
    \/ \E f \in Features, sc \in ScopeArgs, n \in NotesArgs :
          Server(SetScope(f, sc, n))
    \/ \E f \in Features, n \in SaveNames, c \in Contents, t \in TypeArgs :
          Server(SaveArtifact(f, n, c, t))

Spec == Init /\ [][Next]_vars

\* Artifacts: every handler of the workspace, with the artifact handlers'
\* arguments in full and update_state called to count an iteration or to
\* set the status failed
ArtifactsUpdateArgs == {IncrementOnly, [NoArgs EXCEPT !.status = "failed"]}

ArtifactsNext ==
    \/ \E f \in Features, sc \in ScopeArgs, n \in NotesArgs :
          Server(CreateWorkspace(f, sc, n))
    \/ \E f \in Features, c \in BOOLEAN : Server(DeleteWorkspace(f, c))
    \/ \E f \in Features : Server(GetWorkspace(f))
    \/ \E f \in Features : Server(GetState(f))
    \/ \E f \in Features, a \in ArtifactsUpdateArgs :
          WithinBounds(f, a, StoreMaxIter) /\ Server(UpdateState(f, a))
    \/ \E f \in Features, sc \in ScopeArgs, n \in NotesArgs :
          Server(SetScope(f, sc, n))
    \/ \E f \in Features, n \in SaveNames, c \in Contents, t \in TypeArgs :
          Server(SaveArtifact(f, n, c, t))
    \/ \E f \in Features, n \in SaveNames : Server(GetArtifact(f, n))
    \/ \E f \in Features : Server(ListArtifacts(f))
    \/ \E sf \in FilterArgs : Server(ListWorkspaces(sf))
    \/ \E f \in Features : Server(GenerateReport(f))
    \/ Server(UnknownTool)

Artifacts == Init /\ [][ArtifactsNext]_vars

\* Iso: two workspaces side by side, with artifact names that stay in the
\* workspace of the call and names that leave it
IsoFeatures == {"f1", "f2"}

IsoNames == {"spec.md", "../f2/spec.md", "../f2/state.json"}

IsoContents == {JsonText("null"), PlainText("{not valid")}

IsoInit ==
    /\ ws = [f \in IsoFeatures |-> NoWorkspace]
    /\ last = NoCall
    /\ gate = [f \in IsoFeatures |-> "none"]
    /\ reentries = [f \in IsoFeatures |-> 0]
    /\ input = "none"
    /\ output = "none"
    /\ NoRuns
    /\ mtime = [f \in DOMAIN ws |-> 0]
    /\ cache = NoCache

\* the milliseconds that pass in Iso
IsoMaxClock == 1

\* a millisecond passes between two calls, up to max milliseconds in all
TimePasses(max) ==
    /\ clock < max
    /\ clock' = clock + 1
    /\ UNCHANGED <<ws, last, gate, reentries, input, output, calls, testRuns,
                   mtime, cache>>

IsoNext ==
    \/ TimePasses(IsoMaxClock)
    \/ \E f \in IsoFeatures : Server(CreateWorkspace(f, "full", ""))
    \/ \E f \in IsoFeatures, c \in BOOLEAN : Server(DeleteWorkspace(f, c))
    \/ \E f \in IsoFeatures : Server(GetWorkspace(f))
    \/ Server(ListWorkspaces(""))
    \/ \E f \in IsoFeatures : Server(GetState(f))
    \/ \E f \in IsoFeatures :
          WithinBounds(f, IncrementOnly, StoreMaxIter)
          /\ Server(UpdateState(f, IncrementOnly))
    \/ \E f \in IsoFeatures : Server(SetScope(f, "frontend-only", ""))
    \/ \E f \in IsoFeatures, n \in IsoNames, c \in IsoContents, t \in {"json", "text"} :
          Server(SaveArtifact(f, n, c, t))
    \/ \E f \in IsoFeatures, n \in IsoNames : Server(GetArtifact(f, n))
    \/ \E f \in IsoFeatures : Server(ListArtifacts(f))
    \/ \E f \in IsoFeatures : Server(GenerateReport(f))

Iso == IsoInit /\ [][IsoNext]_vars

\* Crash: the process is killed inside a handler and the server is started
\* again on the files it left.  writeFileSync(path, data) opens the file
\* with truncation and writes the data in pieces, so a write that was
\* interrupted leaves the old content (not yet opened), the empty file
\* (opened, nothing written), a prefix of the data, or the data.
Truncated == PlainText("{")

TornContents == {EmptyContent, Truncated}

InterruptedWrite(old, new) == {old, new} \cup TornContents

\* no result is returned by a call the process was killed in
Crashed(op, f) == Err(op, f, "crashed")

\* createWorkspace killed before or inside mkdirSync(recursive): no
\* workspace directory exists (only its parents may); killed after it: the
\* directory exists, the write of state.json was interrupted or has
\* completed, and the write of scope.json begins only after that of
\* state.json has returned
CrashInCreateWorkspace(f, scopeArg, scopeNotes) ==
    LET scope == IF scopeArg = "" THEN "full" ELSE scopeArg
        state == InitialState(scope, scopeNotes)
    IN  /\ ~ws[f].exists
        /\ \/ UNCHANGED ws
           \/ \E s \in InterruptedWrite(Absent, StateFile(state)),
                 c \in InterruptedWrite(Absent, ScopeFile(state.scope)) :
                 /\ c # Absent => s = StateFile(state)
                 /\ ws' = [ws EXCEPT ![f] =
                              [exists |-> TRUE,
                               files  |-> [NoFiles EXCEPT !["state.json"] = s,
                                                          !["scope.json"] = c]]]
        /\ last' = Crashed("create_workspace", f)

\* deleteWorkspace killed inside rmSync(recursive): some of the entries are
\* removed; the directory itself is removed last, and the process may be
\* killed after that, before it replies
CrashInDeleteWorkspace(f) ==
    /\ ws[f].exists
    /\ \/ \E removed \in SUBSET EntriesOf(ws[f]) :
             ws' = [ws EXCEPT ![f].files =
                       [n \in FileNames |-> IF n \in removed THEN Absent ELSE @[n]]]
       \/ ws' = [ws EXCEPT ![f] = NoWorkspace]
    /\ last' = Crashed("delete_workspace", f)

\* updateState killed inside writeFileSync(statePath, ...)
CrashInUpdateState(f, a) ==
    /\ FileExists(f, "state.json")
    /\ IsStateObject(ws[f].files["state.json"])
    /\ LET state == ApplyUpdate(ws[f].files["state.json"].st, a)
       IN  \E s \in InterruptedWrite(ws[f].files["state.json"], StateFile(state)) :
              ws' = [ws EXCEPT ![f].files["state.json"] = s]
    /\ last' = Crashed("update_state", f)

\* setScope killed inside or between its two writeFileSync calls
CrashInSetScope(f, scope, notes) ==
    /\ scope # ""
    /\ FileExists(f, "state.json")
    /\ IsStateObject(ws[f].files["state.json"])
    /\ LET state == ApplyScope(ws[f].files["state.json"].st, scope, notes)
       IN  \E s \in InterruptedWrite(ws[f].files["state.json"], StateFile(state)),
              c \in InterruptedWrite(ws[f].files["scope.json"], ScopeFile(state.scope)) :
              /\ c # ws[f].files["scope.json"] => s = StateFile(state)
              /\ ws' = [ws EXCEPT ![f].files["state.json"] = s,
                                  ![f].files["scope.json"] = c]
    /\ last' = Crashed("set_scope", f)

\* saveArtifact killed inside writeFileSync(artifactPath, content)
CrashInSaveArtifact(f, name, content, typeArg) ==
    LET type == IF typeArg = "" THEN "json" ELSE typeArg
        p    == PathOf(f, name)
    IN  /\ content # EmptyContent
        /\ ws[f].exists
        /\ type = "json" => JsonParses(content)
        /\ ws[p.fid].exists
        /\ \E c \in InterruptedWrite(ws[p.fid].files[p.file], content) :
              ws' = [ws EXCEPT ![p.fid].files[p.file] = c]
        /\ last' = Crashed("save_artifact", f)

CrashScopeArgs == {"full", "frontend-only"}

CrashNames == {"spec.md", "scope.json"}

CrashContents == {JsonText("null")}

CrashNext ==
    \/ \E f \in Features, sc \in CrashScopeArgs :
          Server(CreateWorkspace(f, sc, ""))
    \/ \E f \in Features : Server(DeleteWorkspace(f, TRUE))
    \/ \E f \in Features : Server(GetState(f))
    \/ \E f \in Features : Server(GetWorkspace(f))
    \/ \E sf \in FilterArgs : Server(ListWorkspaces(sf))
    \/ \E f \in Features, a \in ArtifactsUpdateArgs :
          WithinBounds(f, a, StoreMaxIter) /\ Server(UpdateState(f, a))
    \/ \E f \in Features, sc \in CrashScopeArgs : Server(SetScope(f, sc, ""))
    \/ \E f \in Features, n \in CrashNames, c \in CrashContents :
          Server(SaveArtifact(f, n, c, "json"))
    \/ \E f \in Features, sc \in CrashScopeArgs :
          Server(CrashInCreateWorkspace(f, sc, ""))
    \/ \E f \in Features : Server(CrashInDeleteWorkspace(f))
    \/ \E f \in Features :
          WithinBounds(f, IncrementOnly, StoreMaxIter)
          /\ Server(CrashInUpdateState(f, IncrementOnly))
    \/ \E f \in Features, sc \in CrashScopeArgs :
          Server(CrashInSetScope(f, sc, ""))
    \/ \E f \in Features, n \in CrashNames, c \in CrashContents :
          Server(CrashInSaveArtifact(f, n, c, "json"))

Crash == Init /\ [][CrashNext]_vars

\* Links: the workspace directory is shared with the agents, which write
\* into it directly; here one of them leaves a symbolic link whose target
\* is missing, an entry that readdirSync lists and statSync cannot read
DanglingLink == [Absent EXCEPT !.kind = "link"]

PlaceLink(f) ==
    /\ ws[f].exists
    /\ ws' = [ws EXCEPT ![f].files["link.md"] = DanglingLink]
    /\ last' = NoCall

LinkNames == {"spec.md", "link.md"}

LinksNext ==
    \/ \E f \in Features, sc \in ScopeArgs : Server(CreateWorkspace(f, sc, ""))
    \/ \E f \in Features, c \in BOOLEAN : Server(DeleteWorkspace(f, c))
    \/ \E f \in Features : Server(GetWorkspace(f))
    \/ \E f \in Features, c \in Contents, t \in TypeArgs :
          Server(SaveArtifact(f, "spec.md", c, t))
    \/ \E f \in Features, n \in LinkNames : Server(GetArtifact(f, n))
    \/ \E f \in Features : Server(ListArtifacts(f))
    \/ \E sf \in FilterArgs : Server(ListWorkspaces(sf))
    \/ \E f \in Features : Server(GenerateReport(f))
    \/ \E f \in Features : Server(PlaceLink(f))

Links == Init /\ [][LinksNext]_vars

\* Machine: the state-machine handlers, with every phase and status
MachinePhaseArgs ==
    {PhaseChain[i] : i \in 1..Len(PhaseChain)} \cup {"failed", "paused"}

MachineUpdateArgs == UpdateArgsOf(MachinePhaseArgs, Statuses, ErrorArgs, MarkArgs)

MachineNext ==
    \/ \E f \in Features, sc \in ScopeArgs, n \in NotesArgs :
          Server(CreateWorkspace(f, sc, n))
    \/ \E f \in Features : Server(GetState(f))
    \/ \E f \in Features, a \in MachineUpdateArgs :
          WithinBounds(f, a, MaxIter) /\ Server(UpdateState(f, a))
    \/ \E f \in Features, sc \in ScopeArgs, n \in NotesArgs :
          Server(SetScope(f, sc, n))

Machine == Init /\ [][MachineNext]_vars

----------------------------------------------------------------------------
(* The coverage gate of the orchestrator agent (Phase 5: Coverage          *)
(* Validation) and the feedback loop (Phase 7)                             *)

\* test-coverage.json as the gate reads it: coverage_summary.coverage_percentage,
\* coverage_summary.items_without_tests,
\* coverage_summary.by_verification_type.e2e.covered and the length of blockers
CoverageRecords ==
    [coverage_percentage : {50, 100},
     items_without_tests : {0, 1},
     e2e_covered         : {0, 1},
     blockers            : {0, 1}]

\* the number of checklist items with verification_hint "E2E"
E2EHinted == 1

\* 2. Validate coverage ... 4. Coverage gate output: coverage_check.status
CoverageCheck(cov, e2eHinted) ==
    IF /\ cov.coverage_percentage = 100
       /\ cov.items_without_tests = 0
       /\ cov.e2e_covered = e2eHinted
       /\ cov.blockers = 0
    THEN "passed"
    ELSE "failed"

\* the orchestrator evaluates the gate on the coverage report of f
EvaluateGate(f, cov) ==
    /\ ws[f].exists
    /\ gate' = [gate EXCEPT ![f] = CoverageCheck(cov, E2EHinted)]
    /\ last' = Ok("coverage_check", f, Absent, {})
    /\ UNCHANGED <<ws, reentries, input, output, runs, mtime, cache>>

GatePhases == {"verification", "coverage_validation"}

LoopPhases == {"implementation", "test_implementation"}

CurrentPhase(f) == ws[f].files["state.json"].st.current_phase

\* update_state as a step of the workflow: a change of current_phase from a
\* gate phase back to a loop phase is one more re-entry of the feedback loop
IsReentry(f, a) ==
    /\ FileExists(f, "state.json")
    /\ IsStateObject(ws[f].files["state.json"])
    /\ CurrentPhase(f) \in GatePhases
    /\ a.phase \in LoopPhases

FlowUpdateState(f, a) ==
    /\ IsReentry(f, a) => reentries[f] < MaxReentries
    /\ UpdateState(f, a)
    /\ reentries' = [reentries EXCEPT ![f] = IF IsReentry(f, a) THEN @ + 1 ELSE @]
    /\ mtime' = DirTimes
    /\ UNCHANGED <<gate, input, output, runs, cache>>

FlowUpdateArgs ==
    UpdateArgsOf(GatePhases \cup LoopPhases, {"failed"}, {}, {})

FlowNext ==
    \/ \E f \in Features : Server(CreateWorkspace(f, "full", ""))
    \/ \E f \in Features, cov \in CoverageRecords : EvaluateGate(f, cov)
    \/ \E f \in Features, a \in FlowUpdateArgs :
          WithinBounds(f, a, MaxIter) /\ FlowUpdateState(f, a)

Flow == Init /\ [][FlowNext]_vars

\* Gate: the coverage check applied to a checklist and to the
\* test-coverage.json the test-writer saved for it
MaxItems == 2

\* a checklist item with the entry of checklist_coverage for it: hint is the
\* set of types in verification_hint, tests the types of the tests the entry
\* lists (checklist_coverage[].tests[].type)
ChecklistItems ==
    [hint  : SUBSET {"E2E", "unit"} \ {{}},
     tests : SUBSET {"E2E", "unit"}]

Checklists == UNION {[1..n -> ChecklistItems] : n \in 1..MaxItems}

BlockerCounts == {0, 1}

\* the number of items of the checklist that are among wanted
CountItems(items, wanted) ==
    Cardinality({i \in 1..Len(items) : items[i] \in wanted})

\* test-coverage.json: coverage_summary and blockers, numbers the test-writer
\* writes next to the entries. The agents' documents give no rule that
\* derives them from the entries, and in the report they show the entries
\* and by_verification_type.e2e.covered disagree (four of the five entries
\* list a test of type e2e, covered is 5): each number is an input of its own
CoverageReport ==
    [total_checklist_items : 1..MaxItems,
     items_with_tests      : 0..MaxItems,
     items_without_tests   : {0, 1},
     coverage_percentage   : {50, 100},
     e2e_covered           : 0..MaxItems,
     blockers              : BlockerCounts]

\* the count of ACs with verification_hint: "E2E"
E2EHintedIn(items) ==
    CountItems(items, {it \in ChecklistItems : "E2E" \in it.hint})

GateInit ==
    /\ ws = [f \in Features |-> NoWorkspace]
    /\ last = NoCall
    /\ gate = [f \in Features |-> "none"]
    /\ reentries = [f \in Features |-> 0]
    /\ input \in [items : Checklists, report : CoverageReport]
    /\ output = "none"
    /\ NoRuns
    /\ mtime = [f \in DOMAIN ws |-> 0]
    /\ cache = NoCache

\* Phase 5: read test-coverage.json, validate coverage, give the gate output
ValidateCoverage ==
    /\ output = "none"
    /\ output' = CoverageCheck(input.report, E2EHintedIn(input.items))
    /\ UNCHANGED <<ws, last, gate, reentries, input, runs, mtime, cache>>

GateNext == ValidateCoverage

Gate == GateInit /\ [][GateNext]_vars

----------------------------------------------------------------------------
(* The playwright-orchestrator server                                      *)
(* (src/mcp/playwright-orchestrator/src/index.ts) and the playwright-tester *)
(* agent's correlation of its results to the checklist                     *)

\* Correlate: the specs of a Playwright JSON report, parsed by the server and
\* correlated to the checklist item AC1 by the agent
MaxOutcomes == 3

\* what happened to a spec when Playwright ran it
SpecOutcomes == {"passed", "failed", "skipped"}

\* the AC tag in the title of a spec
SpecTags == {"@AC1", "@AC2"}

Specs == [outcome : SpecOutcomes, tag : SpecTags]

Reports == UNION {[1..n -> Specs] : n \in 0..MaxOutcomes}

\* spec.ok in Playwright's JSON report: true for a spec that ran as expected
\* and for one that was skipped
SpecOk(spec) == spec.outcome \in {"passed", "skipped"}

\* status: spec.ok ? 'passed' : 'failed', tags: this.extractTags(spec.title)
ParseSpec(spec) ==
    [status |-> IF SpecOk(spec) THEN "passed" ELSE "failed",
     tags   |-> {spec.tag}]

\* parsePlaywrightOutput: results
ParsePlaywrightOutput(report) == [i \in 1..Len(report) |-> ParseSpec(report[i])]

\* 1. Find tests tagged with that AC ID
RelatedTests(results, acTag) ==
    SelectSeq(results, LAMBDA r : acTag \in r.tags)

\* 2. Determine if AC is satisfied: the statuses the four rules allow.
\* Passed: all related tests passed.  Failed: one or more failed.
\* Partial: some passed, some failed.  Not tested: no tests found.
\* Where no rule applies (tests found, none failed, not all passed) the
\* status is the agent's choice.
CorrelatedStatuses(related) ==
    LET n         == Len(related)
        allPassed == \A i \in 1..n : related[i].status = "passed"
        someFail  == \E i \in 1..n : related[i].status = "failed"
        somePass  == \E i \in 1..n : related[i].status = "passed"
        byRule    == (IF n = 0 THEN {"not_tested"} ELSE {})
                     \cup (IF n > 0 /\ allPassed THEN {"passed"} ELSE {})
                     \cup (IF someFail THEN {"failed"} ELSE {})
                     \cup (IF someFail /\ somePass THEN {"partial"} ELSE {})
    IN  IF byRule # {} THEN byRule
        ELSE {"passed", "failed", "partial", "not_tested"}

CorrelateInit ==
    /\ ws = [f \in Features |-> NoWorkspace]
    /\ last = NoCall
    /\ gate = [f \in Features |-> "none"]
    /\ reentries = [f \in Features |-> 0]
    /\ input \in Reports
    /\ output = "none"
    /\ NoRuns
    /\ mtime = [f \in DOMAIN ws |-> 0]
    /\ cache = NoCache

\* Phase 3: Correlate Results to Checklist, for the item AC1
CorrelateResults ==
    /\ output = "none"
    /\ output' \in CorrelatedStatuses(
                      RelatedTests(ParsePlaywrightOutput(input), "@AC1"))
    /\ UNCHANGED <<ws, last, gate, reentries, input, runs, mtime, cache>>

CorrelateNext == CorrelateResults

Correlate == CorrelateInit /\ [][CorrelateNext]_vars

\* Categorize: analyze_failure's category of the error message of a failed
\* test.  A message is modelled by the set of the words below that it
\* contains (errorMessage.includes(w) is case-sensitive).
Keywords ==
    {"Timeout", "timeout", "waiting for selector", "selector",
     "API", "api", "fetch", "network", "expect"}

\* a message that contains "waiting for selector" contains "selector"
ErrorMessages ==
    {m \in SUBSET Keywords : "waiting for selector" \in m => "selector" \in m}

\* errorMessage.includes(w)
MessageIncludes(m, w) == w \in m

CategorizeFailure(errorMessage) ==
    IF \/ MessageIncludes(errorMessage, "Timeout")
       \/ MessageIncludes(errorMessage, "waiting for selector")
    THEN "frontend"
    ELSE IF \/ MessageIncludes(errorMessage, "API")
            \/ MessageIncludes(errorMessage, "fetch")
            \/ MessageIncludes(errorMessage, "network")
    THEN "backend"
    ELSE IF MessageIncludes(errorMessage, "expect")
    THEN "assertion"
    ELSE "unknown"

CategorizeInit ==
    /\ ws = [f \in Features |-> NoWorkspace]
    /\ last = NoCall
    /\ gate = [f \in Features |-> "none"]
    /\ reentries = [f \in Features |-> 0]
    /\ input \in ErrorMessages
    /\ output = "none"
    /\ NoRuns
    /\ mtime = [f \in DOMAIN ws |-> 0]
    /\ cache = NoCache

\* analyzeFailure: category: this.categorizeFailure(test.error?.message || '')
AnalyzeFailure ==
    /\ output = "none"
    /\ output' = CategorizeFailure(input)
    /\ UNCHANGED <<ws, last, gate, reentries, input, runs, mtime, cache>>

CategorizeNext == AnalyzeFailure

Categorize == CategorizeInit /\ [][CategorizeNext]_vars

\* Runs: the playwright server's run tools.  Its handleToolCall has no
\* try/catch, so a handler's throw rejects the request (Err).  A run handler
\* takes its runId from the clock, awaits the Playwright process and goes on
\* when that process has closed; other requests are served in between.
Playwright(A) == A /\ UNCHANGED <<ws, gate, reentries, input, output, mtime, cache>>

\* Date.now() reads a later millisecond
Tick ==
    /\ clock < MaxClock
    /\ clock' = clock + 1
    /\ UNCHANGED <<last, calls, testRuns>>

\* runFeatureTests up to await this.executePlaywrightTests(...)
RunFeatureTests(c, featureId) ==
    /\ calls[c].pc = "idle"
    /\ IF featureId = ""
       THEN /\ last' = Err("run_feature_tests", featureId, "invalid_args")
            /\ UNCHANGED calls
       ELSE /\ calls' = [calls EXCEPT ![c] =
                            [pc |-> "running", tool |-> "run_feature_tests",
                             runId |-> RunId(clock), reply |-> NoRun]]
            /\ UNCHANGED last
    /\ UNCHANGED <<clock, testRuns>>

\* runACTests up to await this.executePlaywrightTests(...)
RunACTests(c, featureId, acId) ==
    /\ calls[c].pc = "idle"
    /\ IF featureId = "" \/ acId = ""
       THEN /\ last' = Err("run_ac_tests", featureId, "invalid_args")
            /\ UNCHANGED calls
       ELSE /\ calls' = [calls EXCEPT ![c] =
                            [pc |-> "running", tool |-> "run_ac_tests",
                             runId |-> RunId(clock), reply |-> NoRun]]
            /\ UNCHANGED last
    /\ UNCHANGED <<clock, testRuns>>

\* this.testRuns.set(runId, testRunResult)
SetRun(runId, testRunResult) ==
    [r \in DOMAIN testRuns \cup {runId} |->
        IF r = runId THEN testRunResult ELSE testRuns[r]]

\* the rest of runFeatureTests / runACTests, once the Playwright process of
\* call c has closed: a rejection of executePlaywrightTests rejects the
\* call, otherwise the result is stored under the call's runId and returned
TestsExecuted(c, summary) ==
    /\ calls[c].pc = "running"
    /\ IF summary = "unparsable"
       THEN /\ calls' = [calls EXCEPT ![c].pc = "rejected"]
            /\ last' = Err(calls[c].tool, "", "io_error")
            /\ UNCHANGED testRuns
       ELSE LET testRunResult == TestRunResult(calls[c].runId, summary)
            IN  /\ testRuns' = SetRun(calls[c].runId, testRunResult)
                /\ calls' = [calls EXCEPT ![c].pc = "done",
                                          ![c].reply = testRunResult]
                /\ last' = [Ok(calls[c].tool, "", testRunResult, {})
                               EXCEPT !.names = {calls[c].runId}]
    /\ UNCHANGED clock

GetTestReport(runId) ==
    /\ IF runId = NoRunId
       THEN last' = Err("get_test_report", "", "invalid_args")
       ELSE IF runId \notin DOMAIN testRuns
       THEN last' = Err("get_test_report", "", "not_found")
       ELSE last' = [Ok("get_test_report", "", testRuns[runId], {})
                       EXCEPT !.names = {runId}]
    /\ UNCHANGED <<clock, calls, testRuns>>

ListTestRuns ==
    /\ last' = [Ok("list_test_runs", "", NoRun, {})
                  EXCEPT !.names = DOMAIN testRuns,
                         !.total = Cardinality(DOMAIN testRuns)]
    /\ UNCHANGED <<clock, calls, testRuns>>

RunsNext ==
    \/ Playwright(Tick)
    \/ \E c \in Calls, f \in RunFeatureArgs : Playwright(RunFeatureTests(c, f))
    \/ \E c \in Calls, f \in RunFeatureArgs, a \in AcArgs :
          Playwright(RunACTests(c, f, a))
    \/ \E c \in Calls, o \in ExecOutcomes : Playwright(TestsExecuted(c, o))
    \/ \E r \in RunIdArgs : Playwright(GetTestReport(r))
    \/ Playwright(ListTestRuns)

Runs == Init /\ [][RunsNext]_vars

----------------------------------------------------------------------------
(* generate_feature_id *)

\* the length of the longest short_name argument of the model
MaxNameLen == 2

\* the number of generate_feature_id calls of one behaviour
MaxIds == 2

\* the milliseconds that pass while the model runs
MaxElapsed == 1000

\* the characters of a short_name: a lower-case letter, an upper-case
\* letter, the hyphen and a character outside [a-z0-9-]
Alphabet == {"a", "B", "-", "_"}

\* short_name arguments; the empty text is also the absent argument
ShortNames == UNION {[1..n -> Alphabet] : n \in 0..MaxNameLen}

\* toLowerCase()
ToLowerCase(s) == [i \in 1..Len(s) |-> IF s[i] = "B" THEN "b" ELSE s[i]]

\* replace(/[^a-z0-9-]/g, '-')
ReplaceDisallowed(s) ==
    [i \in 1..Len(s) |-> IF s[i] \in {"a", "b", "-"} THEN s[i] ELSE "-"]

\* replace(/-+/g, '-')
RECURSIVE CollapseHyphens(_)
CollapseHyphens(s) ==
    IF Len(s) < 2 THEN s
    ELSE IF s[1] = "-" /\ s[2] = "-" THEN CollapseHyphens(Tail(s))
    ELSE <<s[1]>> \o CollapseHyphens(Tail(s))

\* replace(/^-|-$/g, '')
TrimHyphens(s) ==
    LET t == IF s # << >> /\ s[1] = "-" THEN Tail(s) ELSE s
    IN  IF t # << >> /\ t[Len(t)] = "-" THEN SubSeq(t, 1, Len(t) - 1) ELSE t

Sanitize(shortName) ==
    TrimHyphens(CollapseHyphens(ReplaceDisallowed(ToLowerCase(shortName))))

\* new Date().toISOString().replace(/[-:T]/g, '').slice(0, 14): the
\* fourteen digits YYYYMMDDHHMMSS name the whole second of the clock
MsPerSecond == 1000

Timestamp(now) == now \div MsPerSecond

\* the time between two readings of the clock in the model: half a second
StepMs == 500

\* `feat-${sanitized}-${timestamp}`
FeatureId(sanitized, timestamp) == <<"feat-">> \o sanitized \o <<"-", timestamp>>

IdsInit ==
    /\ ws = [f \in Features |-> NoWorkspace]
    /\ last = NoCall
    /\ gate = [f \in Features |-> "none"]
    /\ reentries = [f \in Features |-> 0]
    /\ input = "none"
    /\ output = << >>
    /\ NoRuns
    /\ mtime = [f \in DOMAIN ws |-> 0]
    /\ cache = NoCache

\* time passes between two calls
Elapse(ms) ==
    /\ clock + ms <= MaxElapsed
    /\ clock' = clock + ms
    /\ UNCHANGED <<ws, last, gate, reentries, input, output, calls, testRuns,
                   mtime, cache>>

\* generateFeatureId; output collects the replies the clients received
GenerateFeatureId(shortName) ==
    /\ Len(output) < MaxIds
    /\ IF shortName = << >>
       THEN /\ last' = Err("generate_feature_id", "", "invalid_args")
            /\ UNCHANGED output
       ELSE LET sanitized == Sanitize(shortName)
                timestamp == Timestamp(clock)
            IN  /\ output' = Append(output,
                                 [feature_id |-> FeatureId(sanitized, timestamp),
                                  short_name |-> sanitized,
                                  timestamp  |-> timestamp,
                                  arg        |-> shortName])
                /\ last' = Ok("generate_feature_id", "", Absent, {})
    /\ UNCHANGED <<ws, gate, reentries, input, runs, mtime, cache>>

IdsNext ==
    \/ Elapse(StepMs)
    \/ \E n \in ShortNames : GenerateFeatureId(n)

Ids == IdsInit /\ [][IdsNext]_vars

----------------------------------------------------------------------------
(* Fields: the fields of the FeatureState under every argument value *)

\* the longest errors list and the highest iteration count of Fields
FieldsMaxErrors == 2
FieldsMaxIter == 1

\* scope arguments, one of them outside FeatureScope['implementation_scope']
FieldsScopeArgs == {"", "full", "frontend-only", "backend-only"}

\* update_state arguments: each argument alone, two error messages, a
\* status outside FeatureState['status'], and several arguments at once
FieldsUpdateArgs ==
    UpdateArgsOf({"planning"}, {"paused", "bogus"}, {"e1", "e2"}, {"spec"})
    \cup {[NoArgs EXCEPT !.status = "failed", !.add_error = "e1",
                         !.increment_iteration = TRUE]}

FieldsWithinBounds(f, a) ==
    LET s == ws[f].files["state.json"].st
    IN  /\ a.increment_iteration => s.current_iteration < FieldsMaxIter
        /\ a.add_error # "" => Len(s.errors) < FieldsMaxErrors

FieldsNext ==
    \/ \E f \in Features, sc \in FieldsScopeArgs, n \in NotesArgs :
          Server(CreateWorkspace(f, sc, n))
    \/ \E f \in Features : Server(DeleteWorkspace(f, TRUE))
    \/ \E f \in Features : Server(GetState(f))
    \/ \E f \in Features, a \in FieldsUpdateArgs :
          FieldsWithinBounds(f, a) /\ Server(UpdateState(f, a))
    \/ \E f \in Features, sc \in FieldsScopeArgs, n \in NotesArgs :
          Server(SetScope(f, sc, n))
    \/ \E f \in Features :
          Server(SaveArtifact(f, "state.json", StateFile(ForgedState), "json"))

Fields == Init /\ [][FieldsNext]_vars

----------------------------------------------------------------------------
(* Recency: two workspaces that are written at different times *)

\* the milliseconds that pass in Recency
RecencyMaxClock == 2

\* output[f]: the time of the latest successful create_workspace,
\* update_state, set_scope or save_artifact of f
RecencyInit ==
    /\ ws = [f \in IsoFeatures |-> NoWorkspace]
    /\ last = NoCall
    /\ gate = [f \in IsoFeatures |-> "none"]
    /\ reentries = [f \in IsoFeatures |-> 0]
    /\ input = "none"
    /\ output = [f \in IsoFeatures |-> 0]
    /\ NoRuns
    /\ mtime = [f \in DOMAIN ws |-> 0]
    /\ cache = NoCache

\* a call that writes to the workspace of f, made at the time of the clock
WriteAt(f, A) ==
    /\ A
    /\ mtime' = DirTimes
    /\ output' = IF last'.ok THEN [output EXCEPT ![f] = clock] ELSE output
    /\ UNCHANGED <<gate, reentries, input, runs, cache>>

RecencyNext ==
    \/ TimePasses(RecencyMaxClock)
    \/ \E f \in IsoFeatures : WriteAt(f, CreateWorkspace(f, "full", ""))
    \/ \E f \in IsoFeatures :
          WriteAt(f, UpdateState(f, [NoArgs EXCEPT !.phase = "planning"]))
    \/ \E f \in IsoFeatures : WriteAt(f, SetScope(f, "frontend-only", ""))
    \/ \E f \in IsoFeatures :
          WriteAt(f, SaveArtifact(f, "spec.md", PlainText("draft"), "markdown"))
    \/ Server(ListWorkspaces(""))

Recency == RecencyInit /\ [][RecencyNext]_vars

----------------------------------------------------------------------------
(* Listing: artifacts of every kind of name and the two listings *)

\* name argument of save_artifact: a markdown name, a name with another
\* suffix and a name that starts with a dot
ListingNames == {"spec.md", "notes.txt", ".draft.md"}

ListingNext ==
    \/ \E f \in Features : Server(CreateWorkspace(f, "full", ""))
    \/ \E f \in Features, c \in BOOLEAN : Server(DeleteWorkspace(f, c))
    \/ \E f \in Features, n \in ListingNames, c \in Contents, t \in TypeArgs :
          Server(SaveArtifact(f, n, c, t))
    \/ \E f \in Features, n \in ListingNames : Server(GetArtifact(f, n))
    \/ \E f \in Features : Server(ListArtifacts(f))
    \/ \E f \in Features : Server(GetWorkspace(f))

Listing == Init /\ [][ListingNext]_vars

----------------------------------------------------------------------------
(* Docs: read_doc and get_doc_structure on one document that is edited *)

\* the time between two readings of the clock in Docs, and the end of time
DocsStepMs == 1800000
DocsMaxClock == 7200000

\* path argument; "" is an absent argument
DocPaths == {"", "README.md"}

\* input: the lines of README.md on disk; output: the reply to the last call
DocsInit ==
    /\ ws = [f \in Features |-> NoWorkspace]
    /\ last = NoCall
    /\ gate = [f \in Features |-> "none"]
    /\ reentries = [f \in Features |-> 0]
    /\ input \in Documents
    /\ output = [op |-> "none", ok |-> TRUE, doc |-> NoDoc, structure |-> << >>]
    /\ NoRuns
    /\ mtime = [f \in DOMAIN ws |-> 0]
    /\ cache = NoCache

DocsElapse ==
    /\ clock < DocsMaxClock
    /\ clock' = clock + DocsStepMs
    /\ UNCHANGED <<ws, last, gate, reentries, input, output, calls, testRuns,
                   mtime, cache>>

\* somebody edits the document
EditDoc(raw) ==
    /\ raw # input
    /\ input' = raw
    /\ UNCHANGED <<ws, last, gate, reentries, output, runs, mtime, cache>>

\* readDoc: the DocContent it returns and the cache it leaves
ReadDocResult(docPath, parseHeadings, parseFrontMatter) ==
    IF docPath = ""
    THEN [ok |-> FALSE, doc |-> NoDoc, cache |-> cache]
    ELSE IF cache.present /\ clock - cache.timestamp < CacheTTL
    THEN [ok |-> TRUE, doc |-> cache.content, cache |-> cache]
    ELSE LET docContent == DocContent(input, parseHeadings, parseFrontMatter)
         IN  [ok |-> TRUE, doc |-> docContent,
              cache |-> [present |-> TRUE, content |-> docContent,
                         timestamp |-> clock]]

ReadDoc(docPath, parseHeadings, parseFrontMatter) ==
    LET r == ReadDocResult(docPath, parseHeadings, parseFrontMatter)
    IN  /\ output' = [op |-> "read_doc", ok |-> r.ok, doc |-> r.doc,
                      structure |-> << >>]
        /\ cache' = r.cache
        /\ UNCHANGED <<ws, last, gate, reentries, input, runs, mtime>>

\* buildTree: a heading is the child of the nearest heading before it that
\* has a lower level (parent 0: a root of the tree)
BuildTree(headings) ==
    [n \in 1..Len(headings) |->
        [level  |-> headings[n].level,
         text   |-> headings[n].text,
         line   |-> headings[n].line,
         parent |->
            LET lower == {j \in 1..(n - 1) : headings[j].level < headings[n].level}
            IN  IF lower = {} THEN 0
                ELSE CHOOSE j \in lower : \A i \in lower : i <= j]]

\* getDocStructure up to its await: readDoc({path, parseHeadings: true,
\* parseFrontMatter: true}) runs whole, with its reading and writing of the
\* cache, and call c waits for the event loop with readDoc's result; without
\* a path the call fails before it reads anything
GetDocStructure(c, docPath) ==
    LET r == ReadDocResult(docPath, TRUE, TRUE)
    IN  /\ calls[c].pc = "idle"
        /\ IF r.ok
           THEN /\ calls' = [calls EXCEPT ![c] =
                               [pc |-> "awaiting", tool |-> "get_doc_structure",
                                runId |-> NoRunId, reply |-> r.doc]]
                /\ UNCHANGED output
           ELSE /\ output' = [op |-> "get_doc_structure", ok |-> FALSE,
                              doc |-> NoDoc, structure |-> << >>]
                /\ UNCHANGED calls
        /\ cache' = r.cache
        /\ UNCHANGED <<ws, last, gate, reentries, input, clock, testRuns, mtime>>

\* getDocStructure after its await: the tree of the headings of the
\* DocContent readDoc gave, and the reply
GetDocStructureResume(c) ==
    /\ calls[c].pc = "awaiting"
    /\ output' = [op |-> "get_doc_structure", ok |-> TRUE,
                  doc |-> calls[c].reply,
                  structure |-> BuildTree(calls[c].reply.headings)]
    /\ calls' = [calls EXCEPT ![c] = IdleCall]
    /\ UNCHANGED <<ws, last, gate, reentries, input, clock, testRuns, mtime,
                   cache>>

DocsNext ==
    \/ DocsElapse
    \/ \E raw \in Documents : EditDoc(raw)
    \/ \E p \in DocPaths, h \in BOOLEAN, m \in BOOLEAN : ReadDoc(p, h, m)
    \/ \E c \in Calls, p \in DocPaths : GetDocStructure(c, p)
    \/ \E c \in Calls : GetDocStructureResume(c)

Docs == DocsInit /\ [][DocsNext]_vars

----------------------------------------------------------------------------
(* Vocabulary of the properties *)

\* state.json of f exists and holds a FeatureState
HasState(f) == FileExists(f, "state.json") /\ IsStateObject(ws[f].files["state.json"])

HasStateNext(f) ==
    /\ ws'[f].exists
    /\ ws'[f].files["state.json"].kind = "state"

\* the FeatureState of f before and after a step
St(f) == ws[f].files["state.json"].st

StNext(f) == ws'[f].files["state.json"].st

\* the step is a call of update_state or set_scope for f
IsStateCall(f) == last'.op \in {"update_state", "set_scope"} /\ last'.fid = f

\* the state of a fresh feature after k increments, as C1 describes it
FreshAfter(k) ==
    {[InitialState(m, "") EXCEPT !.current_iteration = k] : m \in ScopeModes}

\* the edges of the transition graph of section 4.3
ValidEdge(p, q) ==
    \/ q \in {"failed", "paused"}
    \/ \E i \in 1..(Len(PhaseChain) - 1) : PhaseChain[i] = p /\ PhaseChain[i + 1] = q
    \/ p \in GatePhases /\ q \in LoopPhases

Terminal(s) ==
    \/ s.current_phase \in {"completed", "failed"}
    \/ s.status \in {"completed", "failed"}

NoDuplicates(seq) ==
    \A i, j \in 1..Len(seq) : seq[i] = seq[j] => i = j

MarkOnly(m) == [NoArgs EXCEPT !.mark_phase_completed = m]

----------------------------------------------------------------------------
(* Properties of the state machine *)

\* C1 (iteration limit): an update_state(increment_iteration = true) call on
\* a fresh feature that has been incremented k times increments the counter
\* and leaves status != failed while k < max_iterations; at
\* k = max_iterations it does not increment, sets status = failed and
\* appends an error entry.
IterationLimitClaim ==
    [][\A f \in Features :
         (/\ HasState(f)
          /\ \E k \in 0..DefaultMaxIterations : St(f) \in FreshAfter(k)
          /\ UpdateState(f, IncrementOnly))
         => /\ HasStateNext(f)
            /\ IF St(f).current_iteration < St(f).max_iterations
               THEN /\ StNext(f).current_iteration = St(f).current_iteration + 1
                    /\ StNext(f).status # "failed"
               ELSE /\ StNext(f).current_iteration = St(f).current_iteration
                    /\ StNext(f).status = "failed"
                    /\ Len(StNext(f).errors) = Len(St(f).errors) + 1]_vars

\* C2 (iteration invariant): no update_state or set_scope call decreases
\* current_iteration, and current_iteration never exceeds max_iterations
\* while status is neither failed nor paused.
IterationInvariantClaim ==
    [][\A f \in Features :
         /\ (HasState(f) /\ IsStateCall(f))
               => /\ HasStateNext(f)
                  /\ StNext(f).current_iteration >= St(f).current_iteration
         /\ HasStateNext(f)
               => (StNext(f).current_iteration > StNext(f).max_iterations
                     => StNext(f).status \in {"failed", "paused"})]_vars

\* C3 (transition graph): every persisted change of current_phase follows an
\* edge of the graph, and an update_state that requests another phase is
\* rejected and leaves the stored state unchanged.
TransitionGraphClaim ==
    [][\A f \in Features :
         /\ (HasState(f) /\ HasStateNext(f)
               /\ StNext(f).current_phase # St(f).current_phase)
               => ValidEdge(St(f).current_phase, StNext(f).current_phase)
         /\ \A a \in MachineUpdateArgs :
               (/\ HasState(f)
                /\ a.phase # ""
                /\ a.phase # St(f).current_phase
                /\ ~ValidEdge(St(f).current_phase, a.phase)
                /\ UpdateState(f, a))
               => ~last'.ok /\ ws' = ws]_vars

\* C4 (terminal states): once a feature is completed or failed (as phase or
\* as status), no update_state or set_scope call changes its phase or status.
TerminalStatesClaim ==
    [][\A f \in Features :
         (HasState(f) /\ Terminal(St(f)) /\ IsStateCall(f))
         => /\ HasStateNext(f)
            /\ StNext(f).current_phase = St(f).current_phase
            /\ StNext(f).status = St(f).status]_vars

\* C5 (coverage gate guards verification): current_phase is verification only
\* while the latest gate result of the feature is passed, and it becomes
\* verification only directly after a gate evaluation that passed.
GateGuardsVerificationClaim ==
    [][\A f \in Features :
         HasStateNext(f) /\ StNext(f).current_phase = "verification"
         => /\ gate'[f] = "passed"
            /\ (HasState(f) /\ St(f).current_phase # "verification")
                  => last.op = "coverage_check" /\ last.fid = f]_vars

\* C6 (bounded feedback loop): the number of re-entries from verification /
\* coverage_validation into implementation / test_implementation is at most
\* max_iterations, and once current_iteration >= max_iterations no further
\* re-entry happens.
BoundedFeedbackLoopClaim ==
    [][\A f \in Features :
         /\ HasStateNext(f) => reentries'[f] <= StNext(f).max_iterations
         /\ (/\ HasState(f) /\ HasStateNext(f)
             /\ St(f).current_iteration >= St(f).max_iterations
             /\ St(f).current_phase \in GatePhases)
            => StNext(f).current_phase \notin LoopPhases]_vars

----------------------------------------------------------------------------
(* Properties of the workspace store *)

\* C7 (uniqueness): create_workspace for a feature id whose workspace exists
\* fails with an already-exists error and leaves every file of every
\* workspace as it was.
UniquenessTheorem ==
    [][\A f \in Features :
         (ws[f].exists /\ last'.op = "create_workspace" /\ last'.fid = f)
         => /\ ~last'.ok
            /\ last'.err = "already_exists"
            /\ ws' = ws]_vars

\* a second create_workspace was refused for a workspace that has moved on
\* from its initial state and holds an artifact
UniquenessWitness ==
    /\ last = Err("create_workspace", "f1", "already_exists")
    /\ HasState("f1")
    /\ St("f1").current_iteration > 0
    /\ St("f1").phases_completed # << >>
    /\ FileExists("f1", "spec.md")

\* C8 (initial state): a successful create_workspace leaves the feature with
\* current_phase = initialization, status = in_progress, current_iteration = 0
\* and empty errors and phases_completed, and a get_state or get_workspace
\* that follows immediately returns exactly that state.
InitialStateTheorem ==
    [][/\ (last'.op = "create_workspace" /\ last'.ok)
            => /\ HasStateNext(last'.fid)
               /\ StNext(last'.fid).current_phase = "initialization"
               /\ StNext(last'.fid).status = "in_progress"
               /\ StNext(last'.fid).current_iteration = 0
               /\ StNext(last'.fid).errors = << >>
               /\ StNext(last'.fid).phases_completed = << >>
               /\ last'.ret = ws'[last'.fid].files["state.json"]
       /\ (/\ last.op = "create_workspace" /\ last.ok
           /\ last'.op \in {"get_state", "get_workspace"}
           /\ last'.fid = last.fid)
            => /\ last'.ok
               /\ last'.ret = last.ret]_vars

\* get_state has returned the initial state of a frontend-only feature
InitialStateWitness ==
    /\ last.op = "get_state"
    /\ last.ok
    /\ last.ret.kind = "state"
    /\ last.ret.st.current_phase = "initialization"
    /\ last.ret.st.current_iteration = 0
    /\ last.ret.st.scope.implementation_scope = "frontend-only"
    /\ last.ret = ws["f1"].files["state.json"]

\* C9 (idempotent phase completion): marking a phase completed twice yields
\* the same phases_completed as marking it once, and in every reachable
\* state phases_completed holds no phase more than once.
IdempotentCompletionClaim ==
    \A f \in Features :
       HasState(f)
       => /\ \A m \in MarkArgs :
               ApplyMark(ApplyMark(St(f), MarkOnly(m)), MarkOnly(m))
                  = ApplyMark(St(f), MarkOnly(m))
          /\ NoDuplicates(St(f).phases_completed)

\* C10 (phases_completed only grows): every phase in phases_completed before
\* an update_state or set_scope call is in it after the call.
CompletedOnlyGrowsTheorem ==
    [][\A f \in Features :
         (HasState(f) /\ IsStateCall(f))
         => /\ HasStateNext(f)
            /\ \A i \in 1..Len(St(f).phases_completed) :
                  \E j \in 1..Len(StNext(f).phases_completed) :
                     StNext(f).phases_completed[j] = St(f).phases_completed[i]]_vars

\* update_state has marked a second phase completed after a first one
CompletedOnlyGrowsWitness ==
    /\ HasState("f1")
    /\ last.op = "update_state"
    /\ last.ok
    /\ St("f1").phases_completed = << "spec", "planning" >>

\* C11 (invalid structured artifact is rejected without effect): in an
\* existing workspace, save_artifact with type json (declared or by
\* default) and content that does not parse as JSON fails with the
\* invalid-JSON error and writes nothing: every file keeps its content, so
\* list_artifacts lists what it listed before and a stored artifact keeps
\* its old content.
InvalidJsonRejectedClaim ==
    [][\A f \in Features, n \in SaveNames, c \in Contents, t \in {"", "json"} :
         (ws[f].exists /\ ~JsonParses(c) /\ SaveArtifact(f, n, c, t))
         => /\ ~last'.ok
            /\ last'.op = "save_artifact"
            /\ last'.err = "invalid_json"
            /\ ws' = ws
            /\ ArtifactEntries(f)' = ArtifactEntries(f)
            /\ ws'[f].files[n] = ws[f].files[n]]_vars

\* content c is valid for the declared type t: JSON for json (the default),
\* any string for markdown and text
ValidFor(c, t) == t \in {"", "json"} => JsonParses(c)

\* C12 (artifact round-trip): for every existing feature, name, declared
\* type and content valid for the type, save_artifact succeeds and stores
\* the content, and a get_artifact of the same name that follows
\* immediately returns that content.
ArtifactRoundTripClaim ==
    [][/\ \A f \in Features, n \in SaveNames, c \in Contents, t \in TypeArgs :
            (ws[f].exists /\ ValidFor(c, t) /\ SaveArtifact(f, n, c, t))
            => /\ last'.ok
               /\ ws'[f].files[n] = c
       /\ (/\ last.op = "save_artifact" /\ last.ok
           /\ last'.op = "get_artifact"
           /\ last'.fid = last.fid /\ last'.names = last.names)
            => /\ last'.ok
               /\ \A n \in last.names : last'.ret = ws[last.fid].files[n]]_vars

\* C13 (overwrite, not duplicate): a successful save_artifact of name n
\* makes the content of n the saved one and touches no other name, so a
\* repeated save of the same content changes nothing; get_artifact returns
\* the stored content, which is therefore that of the most recent save; and
\* list_artifacts shows every stored name exactly once.
OverwriteTheorem ==
    [][/\ \A f \in Features, n \in SaveNames, c \in Contents, t \in TypeArgs :
            (SaveArtifact(f, n, c, t) /\ last'.ok)
            => /\ ws'[f].files[n] = c
               /\ \A m \in FileNames \ {n} : ws'[f].files[m] = ws[f].files[m]
               /\ (ws[f].files[n] = c => ws' = ws)
       /\ (last'.op = "get_artifact" /\ last'.ok)
            => \A n \in last'.names : last'.ret = ws[last'.fid].files[n]
       /\ (last'.op = "list_artifacts" /\ last'.ok)
            => /\ \A i, j \in 1..Len(last'.entries) :
                     last'.entries[i].name = last'.entries[j].name => i = j
               /\ last'.names = ListedNames(last'.fid)]_vars

\* a save has replaced the content of state.json, which exists in every
\* workspace from its creation, and the workspace still has its other file
OverwriteWitness ==
    /\ last.op = "save_artifact"
    /\ last.ok
    /\ last.names = {"state.json"}
    /\ ws["f1"].files["state.json"] = JsonText("null")
    /\ FileExists("f1", "scope.json")

\* C14 (FeatureState is mutated only through state-machine operations): the
\* content of a feature's state file changes only in a step of
\* create_workspace, update_state, set_scope or delete_workspace;
\* save_artifact, get_artifact, list_artifacts, get_workspace,
\* list_workspaces, get_state and generate_report leave it unchanged.
StateOwnedByMachineClaim ==
    [][\A f \in Features :
         ws'[f].files["state.json"] # ws[f].files["state.json"]
         => last'.op \in {"create_workspace", "update_state", "set_scope",
                          "delete_workspace"}]_vars

\* C15 (isolation between features): a tool call issued with feature_id = A
\* changes no file and no directory of another feature B: B's workspace,
\* state file and artifacts are after the call what they were before it.
IsolationClaim ==
    [][\A a, b \in IsoFeatures :
         (a # b /\ last'.fid = a) => ws'[b] = ws[b]]_vars

\* C16 (atomic file writes): when the process is killed inside
\* create_workspace, update_state, set_scope or save_artifact, every file
\* the call has changed holds complete content, never an empty or truncated
\* one, and a state file that exists after the crash parses.
AtomicWritesClaim ==
    [][(/\ last'.err = "crashed"
        /\ last'.op \in {"create_workspace", "update_state", "set_scope",
                         "save_artifact"})
       => \A f \in Features :
            /\ \A n \in FileNames :
                  ws'[f].files[n] # ws[f].files[n]
                  => ws'[f].files[n] \notin TornContents
            /\ ws'[f].files["state.json"].kind # "absent"
               => JsonParses(ws'[f].files["state.json"])]_vars

\* C17 (a workspace never partially exists): in every reachable state, those
\* after a crash inside create_workspace or delete_workspace included, the
\* workspace directory exists if and only if its state file exists and
\* parses; so create_workspace never fails as already existing where
\* get_state fails as not found.
WorkspaceWholeClaim ==
    \A f \in Features :
       ws[f].exists <=> (FileExists(f, "state.json")
                         /\ JsonParses(ws[f].files["state.json"]))

\* C18 (scope is replaced atomically with the state): in every reachable
\* state of an existing feature, those after a crash inside set_scope
\* included, scope.json holds the scope of the scope field of state.json.
ScopeInStepClaim ==
    \A f \in Features :
       HasState(f) => ws[f].files["scope.json"] = ScopeFile(St(f).scope)

\* C19 (derived skip_backend): after any create_workspace, set_scope or
\* update_state call the scope of every existing feature has
\* skip_backend = TRUE exactly when its mode is frontend-only; creating
\* with scope frontend-only stores that mode with skip_backend TRUE, and
\* a get_state that follows returns it.
DerivedSkipBackendTheorem ==
    [][/\ \A f \in Features :
            HasStateNext(f)
            => (StNext(f).scope.skip_backend
                  <=> StNext(f).scope.implementation_scope = "frontend-only")
       /\ \A f \in Features, n \in NotesArgs :
            (CreateWorkspace(f, "frontend-only", n) /\ last'.ok)
            => /\ StNext(f).scope.implementation_scope = "frontend-only"
               /\ StNext(f).scope.skip_backend
       /\ (/\ last.op = "create_workspace" /\ last.ok
           /\ last'.op = "get_state" /\ last'.fid = last.fid)
            => /\ last'.ok
               /\ last'.ret.st.scope = last.ret.st.scope]_vars

\* get_state has returned a frontend-only scope with skip_backend set, for
\* a feature that update_state has moved on since its creation
DerivedSkipBackendWitness ==
    /\ last.op = "get_state"
    /\ last.ok
    /\ last.ret.st.scope.implementation_scope = "frontend-only"
    /\ last.ret.st.scope.skip_backend
    /\ last.ret.st.current_iteration > 0

\* C20 (unconfirmed deletion is refused): delete_workspace with confirm
\* false or absent fails with the not-confirmed error and leaves every
\* workspace, state and artifact unchanged, whether or not the feature
\* exists.
UnconfirmedDeleteTheorem ==
    [][\A f \in Features :
         DeleteWorkspace(f, FALSE)
         => /\ ~last'.ok
            /\ last'.op = "delete_workspace"
            /\ last'.err = "not_confirmed"
            /\ ws' = ws]_vars

\* an unconfirmed deletion has been refused for a feature that exists and
\* holds an artifact
UnconfirmedDeleteWitness ==
    /\ last.op = "delete_workspace"
    /\ last.err = "not_confirmed"
    /\ ws["f1"].exists
    /\ FileExists("f1", "spec.md")

\* the errors that say that the workspace, the state or the artifact of the
\* call does not exist
NotFoundErrors == {"workspace_not_found", "state_not_found", "artifact_not_found"}

\* C21 (confirmed deletion removes everything): a successful
\* delete_workspace(f, TRUE) leaves nothing of f; right after it
\* get_workspace(f), get_state(f) and get_artifact(f, n), for every n, fail
\* with not-found, list_workspaces does not list f, and create_workspace(f)
\* succeeds with the initial state and no file but state.json and scope.json.
DeletionRemovesAllClaim ==
    [][/\ \A f \in IsoFeatures :
            (DeleteWorkspace(f, TRUE) /\ last'.ok) => ws'[f] = NoWorkspace
       /\ (last.op = "delete_workspace" /\ last.ok)
            => /\ (/\ last'.op \in {"get_workspace", "get_state", "get_artifact"}
                   /\ last'.fid = last.fid)
                    => (~last'.ok /\ last'.err \in NotFoundErrors)
               /\ last'.op = "list_workspaces" => last.fid \notin last'.names
               /\ (last'.op = "create_workspace" /\ last'.fid = last.fid)
                    => /\ last'.ok
                       /\ \E sc \in ScopeModes :
                             ws'[last.fid].files =
                                [NoFiles EXCEPT
                                   !["state.json"] = StateFile(InitialState(sc, "")),
                                   !["scope.json"] = ScopeFile(MkScope(sc, ""))]]_vars

\* C22 (not-found handling): for a feature id with no workspace,
\* get_workspace, get_state, update_state, set_scope, save_artifact,
\* list_artifacts, get_artifact and delete_workspace(confirm = TRUE) fail
\* with a not-found error; in an existing workspace get_artifact of a name
\* that holds no artifact fails with artifact-not-found; and none of these
\* failing calls creates or changes a file.
NotFoundClaim ==
    [][/\ \A f \in IsoFeatures :
            (/\ ~ws[f].exists
             /\ last'.fid = f
             /\ last'.op \in {"get_workspace", "get_state", "update_state",
                              "set_scope", "save_artifact", "list_artifacts",
                              "get_artifact"})
            => /\ ~last'.ok
               /\ last'.err \in NotFoundErrors
               /\ ws' = ws
       /\ \A f \in IsoFeatures :
            (~ws[f].exists /\ DeleteWorkspace(f, TRUE))
            => /\ ~last'.ok
               /\ last'.err \in NotFoundErrors
               /\ ws' = ws
       /\ \A f \in IsoFeatures, n \in IsoNames \cap FileNames :
            (ws[f].exists /\ ~FileExists(f, n) /\ GetArtifact(f, n))
            => /\ ~last'.ok
               /\ last'.err = "artifact_not_found"
               /\ ws' = ws]_vars

ExplicitErrorOnGetClaim ==
    [][(last'.op \in {"get_state", "get_workspace"})
       => /\ ws' = ws
          /\ last'.ok => last'.ret.kind = "state"
          /\ (ws[last'.fid].exists /\ ~HasState(last'.fid)) => ~last'.ok]_vars

\* C25 (artifact listing skips unreadable entries): list_artifacts on an
\* existing workspace succeeds whatever entries the directory holds; it
\* returns the entries that can be read, each typed by the suffix of its
\* name.
ListSkipsUnreadableClaim ==
    [][\A f \in Features :
         (ws[f].exists /\ ListArtifacts(f))
         => /\ last'.ok
            /\ last'.names = ListedNames(f) \ Unreadable(f)
            /\ \A i \in 1..Len(last'.entries) :
                  last'.entries[i].type = TypeOfName(last'.entries[i].name)]_vars

\* C26 (errors are structured results): every failing tool call (missing
\* argument, not found, already exists, unconfirmed delete, invalid JSON,
\* unknown tool) completes with a result whose isError is true and that
\* names the error; none leaves handleToolCall as a rejected promise, and a
\* failed call changes no file.
StructuredErrorsClaim ==
    [][~last'.ok
       => /\ ~last'.rejected
          /\ last'.err # "none"
          /\ ws' = ws]_vars

\* C27 (gate correctness): for every checklist and coverage report the
\* coverage check gives passed if and only if items_with_tests equals the
\* total of items, there is no blocker and every item whose
\* verification_hint includes E2E has a test of type E2E among those the
\* report lists for it; otherwise it gives failed, a value and not an error.
GateCorrectClaim ==
    output # "none"
    => /\ output \in {"passed", "failed"}
       /\ output = "passed"
          <=> /\ input.report.items_with_tests
                    = input.report.total_checklist_items
              /\ input.report.blockers = 0
              /\ \A i \in 1..Len(input.items) :
                    "E2E" \in input.items[i].hint => "E2E" \in input.items[i].tests

\* the outcomes of the specs of the report that carry the tag of AC1
OutcomesOfAC1 ==
    {input[i].outcome : i \in {j \in 1..Len(input) : input[j].tag = "@AC1"}}

\* C28 (correlator dominance): the status of a checklist item is not_tested
\* when no outcome carries its tag or all that do are skipped, failed when
\* one of them is failed, passed only when one passed and none failed; an
\* item without tests is never passed and no item is partial.
CorrelatorDominanceClaim ==
    output # "none"
    => /\ OutcomesOfAC1 \subseteq {"skipped"} => output = "not_tested"
       /\ "failed" \in OutcomesOfAC1 => output = "failed"
       /\ output = "passed"
          => ("passed" \in OutcomesOfAC1 /\ "failed" \notin OutcomesOfAC1)
       /\ output # "partial"

\* the message contains the word, in lower case or capitalised as Playwright
\* writes it
Mentions(m, lower, upper) == lower \in m \/ upper \in m

\* C29 (ordered failure categorization): the category of an error text is
\* that of the first rule that matches: "timeout" or "selector" gives
\* frontend, "api", "fetch" or "network" gives backend, "expect" gives
\* assertion, anything else unknown.
OrderedCategoriesClaim ==
    output # "none"
    => output =
         IF Mentions(input, "timeout", "Timeout") \/ "selector" \in input
         THEN "frontend"
         ELSE IF \/ Mentions(input, "api", "API")
                 \/ "fetch" \in input
                 \/ "network" \in input
         THEN "backend"
         ELSE IF "expect" \in input
         THEN "assertion"
         ELSE "unknown"

\* the calls that have completed (their handler has returned a result)
Completed == {c \in Calls : calls[c].pc = "done"}

\* C30: test runs are retrievable by id.  Whatever the interleaving of
\* run_feature_tests and run_ac_tests calls, every call that has completed
\* returned a runId under which get_test_report finds exactly the result
\* that call returned, and list_test_runs has one entry per completed run:
\* no completed run is overwritten or lost.
RunsRetrievableClaim ==
    /\ \A c \in Completed :
          /\ calls[c].reply.runId \in DOMAIN testRuns
          /\ testRuns[calls[c].reply.runId] = calls[c].reply
    /\ Cardinality(DOMAIN testRuns) = Cardinality(Completed)

----------------------------------------------------------------------------
(* Properties of generate_feature_id *)

\* C31: generated feature ids are unique.  Any two generate_feature_id
\* calls return different feature ids, whatever their short names and
\* whenever they are made.
UniqueIdsClaim ==
    \A i, j \in 1..Len(output) :
        i # j => output[i].feature_id # output[j].feature_id

----------------------------------------------------------------------------
(* Properties of the fields of the FeatureState *)

\* C32: update_state applies exactly the supplied fields.  A successful
\* call applies each of phase, status, increment_iteration, add_error and
\* mark_phase_completed that it supplies (an argument is supplied when the
\* handler's test if (args.x) sees a value; a mark of a phase that is
\* already completed adds nothing) and leaves current_phase, status,
\* current_iteration, errors and phases_completed as they were when their
\* argument is not supplied; max_iterations and scope never change.
SuppliedFieldsTheorem ==
    [][\A f \in Features, a \in FieldsUpdateArgs :
          (UpdateState(f, a) /\ last'.ok)
          => LET s == St(f)
                 t == StNext(f)
             IN  /\ HasStateNext(f)
                 /\ t.current_phase =
                      IF a.phase # "" THEN a.phase ELSE s.current_phase
                 /\ t.status = IF a.status # "" THEN a.status ELSE s.status
                 /\ t.current_iteration =
                      IF a.increment_iteration
                      THEN s.current_iteration + 1 ELSE s.current_iteration
                 /\ t.errors =
                      IF a.add_error # ""
                      THEN Append(s.errors, a.add_error) ELSE s.errors
                 /\ t.phases_completed =
                      IF a.mark_phase_completed # ""
                         /\ ~Includes(s.phases_completed, a.mark_phase_completed)
                      THEN Append(s.phases_completed, a.mark_phase_completed)
                      ELSE s.phases_completed
                 /\ t.max_iterations = s.max_iterations
                 /\ t.scope = s.scope]_vars

\* update_state with add_error alone has acted on a state whose scope was
\* set and whose status was changed before: only errors differs
SuppliedFieldsWitness ==
    /\ last.op = "update_state"
    /\ last.ok
    /\ HasState("f1")
    /\ St("f1").errors = <<"e2", "e1">>
    /\ St("f1").status = "paused"
    /\ St("f1").current_phase = "initialization"
    /\ St("f1").current_iteration = 0
    /\ St("f1").phases_completed = << >>
    /\ St("f1").scope = MkScope("frontend-only", "")

\* C34: status and scope stay in their declared domains.  In every
\* reachable state the stored status is one of pending, in_progress,
\* completed, failed, paused and the stored scope mode is one of full,
\* frontend-only: create_workspace, update_state and set_scope reject any
\* other value and leave the stored state as it was.
DeclaredDomainsClaim ==
    \A f \in Features :
        HasState(f)
        => /\ St(f).status \in Statuses
           /\ St(f).scope.implementation_scope \in ScopeModes

\* errors list old is the beginning of errors list new
IsPrefix(old, new) ==
    /\ Len(old) <= Len(new)
    /\ SubSeq(new, 1, Len(old)) = old

\* C35: errors is an append-only ordered log.  update_state with
\* add_error = e makes the errors list the previous list followed by e, and
\* no step that keeps the workspace removes, reorders or rewrites an entry
\* that is already in the list.
ErrorsAppendOnlyClaim ==
    [][\A f \in Features :
          HasState(f)
          => /\ HasStateNext(f) => IsPrefix(St(f).errors, StNext(f).errors)
             /\ \A a \in FieldsUpdateArgs :
                   (UpdateState(f, a) /\ last'.ok /\ a.add_error # "")
                   => StNext(f).errors = Append(St(f).errors, a.add_error)]_vars

----------------------------------------------------------------------------
(* Properties of the listings *)

\* C36: list_workspaces orders by most recent modification.  Of two
\* workspaces in the result, the one whose latest state update or artifact
\* save is the later one comes first.
RecentFirstClaim ==
    (last.op = "list_workspaces" /\ last.ok)
    => \A i, j \in 1..Len(last.entries) :
          output[last.entries[i]] > output[last.entries[j]] => i < j

\* the artifacts saved in the workspace of f and not deleted since
SavedNames(f) == EntriesOf(ws[f]) \cap ListingNames

\* C37: every saved artifact is listed.  After a successful save_artifact
\* of any name and type, the name is in the result of list_artifacts and in
\* the artifact listing of get_workspace until the workspace is deleted,
\* and the two listings hold the same names.
SavedIsListedClaim ==
    \A f \in Features :
        /\ (last.ok /\ last.fid = f /\ last.op \in {"list_artifacts", "get_workspace"})
           => SavedNames(f) \subseteq last.names
        /\ ws[f].exists
           => ListedNames(f) =
                {ArtifactEntries(f)[i].name : i \in 1..Len(ArtifactEntries(f))}

----------------------------------------------------------------------------
(* Properties of the docs server *)

\* C38: the docs cache is transparent.  For every combination of the
\* parseHeadings and parseFrontMatter options read_doc returns what a read
\* of the file's current content with those options returns, whatever calls
\* came before; get_doc_structure takes from its read the headings of the
\* file's current content, and replies with their tree.
CacheTransparentClaim ==
    [][/\ \A h \in BOOLEAN, m \in BOOLEAN :
             ReadDoc("README.md", h, m) => output'.doc = DocContent(input, h, m)
       /\ \A c \in Calls :
             /\ GetDocStructure(c, "README.md")
                => calls'[c].reply.headings
                     = DocContent(input, TRUE, TRUE).headings
             /\ GetDocStructureResume(c)
                => output'.structure = BuildTree(calls[c].reply.headings)]_vars

====
